---- MODULE Spec2Model ----
(***************************************************************************)
(* Model of qutebrowser/commands/managers.py: the CommandManager (parse,   *)
(* _check, _run, run), the free function split_cmdline and the             *)
(* SearchManager (search, search_rev, nextsearch).                         *)
(*                                                                         *)
(* A text is a sequence of one-character strings, so that the string       *)
(* operations of the source (strip, split, endswith, "in") are computed    *)
(* character by character as Python computes them.                         *)
(***************************************************************************)
EXTENDS Naturals, Integers, Sequences, FiniteSets, TLC

VARIABLES
    _cmd,        \* CommandManager._cmd: the name of the command which was parsed, NoCmd for None
    _args,       \* CommandManager._args: the arguments which were parsed
    mode,        \* the current input mode, read by Command.check
    aliases,     \* the 'aliases' section of the configuration
    op,          \* the call that has just returned: "idle", "run", "parse",
                 \* "split_cmdline", "search", "search_rev", "nextsearch"
    text,        \* its text argument
    count,       \* its count argument (run, nextsearch): <<n>>, or <<>> for None
    ignore_exc,  \* its ignore_exc argument (run)
    with_aliases, \* its aliases argument (parse)
    retval,      \* <<v>> when it returned v, <<>> when it raised
    raised,      \* the exception that reached the caller, None when it returned
    errors,      \* what the call sent to message.error, in order
    handled,     \* the handler invocations (Command.run) the call made, in order
    calls,       \* the number of times parse was entered during the call
    _text,       \* SearchManager._text: <<t>> for the text t of the last search, NoText for None
    _flags,      \* SearchManager._flags: the set of the bits that are set
    ignorecase,  \* the setting ('general', 'ignorecase') of the configuration
    wrapsearch,  \* the setting ('general', 'wrapsearch') of the configuration
    emitted,     \* the do_search signals the call emitted, in order
    prev_text,   \* _text when the call was made
    prev_flags   \* _flags when the call was made

\* the SearchManager, the settings it reads and what its calls leave
searchVars == <<_text, _flags, ignorecase, wrapsearch, emitted, prev_text,
                prev_flags>>

\* the CommandManager, what it reads and what its calls leave
commandVars == <<_cmd, _args, mode, aliases, ignore_exc, with_aliases, retval,
                 raised, errors, handled, calls>>

vars == <<_cmd, _args, mode, aliases, op, text, count, ignore_exc,
          with_aliases, retval, raised, errors, handled, calls, _text, _flags,
          ignorecase, wrapsearch, emitted, prev_text, prev_flags>>

\* no exception
None == "None"
\* CommandManager._cmd is None
NoCmd == <<>>
\* count=None
NoCount == <<>>
\* SearchManager._text is None
NoText == <<>>

(***************************************************************************)
(* Bounds.                                                                 *)
(***************************************************************************)
\* longest text given to run
MaxLen == 4
\* longest text given to parse and split_cmdline on their own
MaxParseLen == 7
\* longest text given to search and search_rev
MaxSearchLen == 1
\* largest count given to nextsearch
MaxCount == 3

Chars == {"a", " ", ";"}

Texts(n) == UNION {[1..k -> Chars] : k \in 0..n}
\* chains of two commands with different handlers, in both orders and with
\* an empty segment between them
ChainTexts ==
    { <<"a", ";", ";", "a", "a", " ", "a">>,
      <<"a", "a", " ", "a", ";", ";", "a">>,
      <<"a", ";", ";", ";", ";", "a", "a", " ", "a">> }

\* the texts given to run
RunTexts == Texts(MaxLen) \cup ChainTexts
\* the texts given to parse and split_cmdline on their own
ParseTexts == Texts(MaxParseLen)
\* the texts given to search and search_rev
SearchTexts == Texts(MaxSearchLen)

Counts == {NoCount, <<2>>}

Min(S) == CHOOSE m \in S : \A n \in S : m <= n
Max(S) == CHOOSE m \in S : \A n \in S : n <= m

(***************************************************************************)
(* Python string operations.                                               *)
(***************************************************************************)
isspace(c) == c = " "

\* str.lstrip()
lstrip(s) ==
    LET idx == {i \in 1..Len(s) : ~isspace(s[i])}
    IN  IF idx = {} THEN <<>> ELSE SubSeq(s, Min(idx), Len(s))

\* str.strip()
strip(s) ==
    LET idx == {i \in 1..Len(s) : ~isspace(s[i])}
    IN  IF idx = {} THEN <<>> ELSE SubSeq(s, Min(idx), Max(idx))

\* str.split(maxsplit=maxsplit) without a separator: runs of whitespace
\* separate the words, at most maxsplit splits are made (no limit when
\* maxsplit is negative) and the remainder, without its leading whitespace,
\* is the last element.
RECURSIVE split(_, _)
split(s, maxsplit) ==
    LET t == lstrip(s)
        sp == {i \in 1..Len(t) : isspace(t[i])}
        j == IF sp = {} THEN Len(t) + 1 ELSE Min(sp)
    IN  IF t = <<>> THEN <<>>
        ELSE IF maxsplit = 0 THEN <<t>>
        ELSE <<SubSeq(t, 1, j - 1)>>
             \o split(SubSeq(t, j, Len(t)),
                      IF maxsplit < 0 THEN maxsplit ELSE maxsplit - 1)

\* str.find(sep) + 1: the first position where sep occurs in s, 0 if none
find(s, sep) ==
    LET at == {i \in 1..(Len(s) - Len(sep) + 1) :
                  SubSeq(s, i, i + Len(sep) - 1) = sep}
    IN  IF at = {} THEN 0 ELSE Min(at)

\* sep in s
contains(s, sep) == find(s, sep) # 0

\* str.split(sep) with an explicit separator: every occurrence splits, empty
\* strings included
RECURSIVE split_sep(_, _)
split_sep(s, sep) ==
    LET i == find(s, sep)
    IN  IF i = 0 THEN <<s>>
        ELSE <<SubSeq(s, 1, i - 1)>>
             \o split_sep(SubSeq(s, i + Len(sep), Len(s)), sep)

\* str.endswith(' ')
endswith_space(s) == Len(s) > 0 /\ s[Len(s)] = " "

(***************************************************************************)
(* The collaborators: the command registry, Command.check, the alias table *)
(***************************************************************************)
\* cmdutils.cmd_dict: the commands by name.  "a" takes no argument and is not
\* available in insert mode, "a;" is a second name of it; "aa" takes exactly
\* one argument, which is not split; ";" takes exactly two arguments, the
\* second being the rest of the line.  returns is what the handler of the
\* command returns: nothing (<<>>), false or true.
cmd_dict ==
    (<<"a">> :> [name |-> <<"a">>, maxsplit |-> -1, nargs |-> 0,
                 not_modes |-> {"insert"}, returns |-> <<>>])
    @@ (<<"a", ";">> :> [name |-> <<"a">>, maxsplit |-> -1, nargs |-> 0,
                         not_modes |-> {"insert"}, returns |-> <<>>])
    @@ (<<"a", "a">> :> [name |-> <<"a", "a">>, maxsplit |-> 0, nargs |-> 1,
                         not_modes |-> {}, returns |-> <<FALSE>>])
    @@ (<<";">> :> [name |-> <<";">>, maxsplit |-> 1, nargs |-> 2,
                    not_modes |-> {}, returns |-> <<TRUE>>])

Modes == {"normal", "insert"}

\* Command.check(args): the error it raises, None when it accepts
check(cmd, args, curmode) ==
    IF curmode \in cmd.not_modes THEN "InvalidModeError"
    ELSE IF Len(args) # cmd.nargs THEN "ArgumentCountError"
    ELSE None

\* the alias tables of the configuration: no alias; an alias that has the
\* name of a command; an alias of itself; an alias of an alias; a blank alias
AliasTables ==
    { <<>>,
      (<<"a">> :> <<"a", "a", " ", "a">>),
      (<<"a", "a", "a">> :> <<"a", "a", "a">>),
      (<<"a", "a", "a">> :> <<"a">>) @@ (<<"a">> :> <<"a", "a", " ", "a">>),
      (<<"a", "a", "a">> :> <<" ">>) }

(***************************************************************************)
(* CommandManager                                                          *)
(***************************************************************************)
RECURSIVE parse(_, _, _)
RECURSIVE run(_, _, _, _, _, _)
RECURSIVE run_chain(_, _, _, _, _, _, _)

\* what parse yields when it raises NoSuchCommandError(e)
NoSuchCommandError(e) ==
    [exc |-> "NoSuchCommandError", arg |-> e, ret |-> <<>>,
     stored |-> FALSE, cmd |-> NoCmd, args |-> <<>>, entered |-> 1]

\* parse_command with a registry miss taken for a command without arguments
parse_command_lenient(parts) ==
    LET cmdstr == parts[1]
        cmd == cmd_dict[cmdstr]
        args == IF Len(parts) = 1 THEN <<>> ELSE split(parts[2], cmd.maxsplit)
    IN  IF cmdstr \notin DOMAIN cmd_dict
        THEN [exc |-> None, arg |-> <<>>, ret |-> <<cmdstr>>,
              stored |-> FALSE, cmd |-> NoCmd, args |-> <<>>, entered |-> 1]
        ELSE [exc |-> None, arg |-> <<>>,
              ret |-> <<cmdstr>> \o args, stored |-> TRUE,
              cmd |-> cmd.name, args |-> args, entered |-> 1]

\* parse_command returning the name of the command instead of the name typed
parse_command_name(parts) ==
    LET cmdstr == parts[1]
        cmd == cmd_dict[cmdstr]
        args == IF Len(parts) = 1 THEN <<>> ELSE split(parts[2], cmd.maxsplit)
    IN  IF cmdstr \notin DOMAIN cmd_dict
        THEN NoSuchCommandError(cmdstr)
        ELSE [exc |-> None, arg |-> <<>>,
              ret |-> <<cmd.name>> \o args, stored |-> TRUE,
              cmd |-> cmd.name, args |-> args, entered |-> 1]

\* parse_command making one split too many
parse_command_offbyone(parts) ==
    LET cmdstr == parts[1]
        cmd == cmd_dict[cmdstr]
        args == IF Len(parts) = 1 THEN <<>>
                ELSE split(parts[2], IF cmd.maxsplit < 0 THEN cmd.maxsplit
                                     ELSE cmd.maxsplit + 1)
    IN  IF cmdstr \notin DOMAIN cmd_dict
        THEN NoSuchCommandError(cmdstr)
        ELSE [exc |-> None, arg |-> <<>>,
              ret |-> <<cmdstr>> \o args, stored |-> TRUE,
              cmd |-> cmd.name, args |-> args, entered |-> 1]

\* the second half of parse: the registry lookup of the command name
\* parts[1] and the split of the argument text parts[2]
parse_command(parts) ==
    LET cmdstr == parts[1]
        cmd == cmd_dict[cmdstr]
        args == IF Len(parts) = 1 THEN <<>> ELSE split(parts[2], cmd.maxsplit)
    IN  IF cmdstr \notin DOMAIN cmd_dict
        THEN NoSuchCommandError(cmdstr)
        ELSE [exc |-> None, arg |-> <<>>,
              ret |-> <<cmdstr>> \o args, stored |-> TRUE,
              cmd |-> cmd.name, args |-> args, entered |-> 1]

\* parse looking up an alias in the replacement text of an alias as well
parse_deep(txt, use_aliases, table) ==
    LET parts == split(strip(txt), 1)
        cmdstr == parts[1]
        parts2 == split(strip(table[cmdstr]), 1)
    IN  IF parts = <<>>
        THEN NoSuchCommandError(<<"No command given">>)
        ELSE IF use_aliases /\ cmdstr \in DOMAIN table
        THEN IF parts2 # <<>> /\ parts2[1] \in DOMAIN table
             THEN [parse(table[parts2[1]], FALSE, table)
                      EXCEPT !.entered = @ + 2]
             ELSE [parse(table[cmdstr], FALSE, table)
                      EXCEPT !.entered = @ + 1]
        ELSE parse_command(parts)

\* parse handing what is typed after the name of an alias on to the
\* replacement text
parse_keepargs(txt, use_aliases, table) ==
    LET parts == split(strip(txt), 1)
        cmdstr == parts[1]
        rest == IF Len(parts) = 1 THEN <<>> ELSE <<" ">> \o parts[2]
        inner == parse(table[cmdstr] \o rest, FALSE, table)
    IN  IF parts = <<>>
        THEN NoSuchCommandError(<<"No command given">>)
        ELSE IF use_aliases /\ cmdstr \in DOMAIN table
        THEN [inner EXCEPT !.entered = @ + 1]
        ELSE parse_command(parts)

\* CommandManager.parse(text, aliases): what the call raises (exc, with the
\* argument of the exception in arg), what it returns (ret), the command and
\* arguments it stores (stored is FALSE when it stores nothing) and the number
\* of times parse was entered.
parse(txt, use_aliases, table) ==
    LET parts == split(strip(txt), 1)
        cmdstr == parts[1]
        inner == parse(table[cmdstr], FALSE, table)
    IN  IF parts = <<>>
        THEN NoSuchCommandError(<<"No command given">>)
        ELSE IF use_aliases /\ cmdstr \in DOMAIN table
        THEN [inner EXCEPT !.entered = @ + 1]
        ELSE parse_command(parts)

\* the command object behind CommandManager._cmd
command(name) == cmd_dict[name]

\* CommandManager._check(): Command.check on the stored command and arguments
_check(st, curmode) == check(command(st.cmd), st.args, curmode)

\* _run passing count=None to the handler when there is no count
_run_sentinel(st, cnt) ==
    [cmd |-> st.cmd, args |-> st.args,
     kwargs |-> <<"count", IF cnt # NoCount THEN cnt[1] ELSE 0>>,
     returned |-> command(st.cmd).returns]

\* CommandManager._run(count): the handler invocation it makes; count is
\* passed as a keyword only when it is not None, and what the handler
\* returns (returned) is dropped
_run(st, cnt) ==
    [cmd |-> st.cmd, args |-> st.args,
     kwargs |-> IF cnt # NoCount THEN <<"count", cnt[1]>> ELSE <<>>,
     returned |-> command(st.cmd).returns]

\* the texts run sends to message.error: "{}: no such command"
fmt_nosuch(e) == <<e, <<": no such command">>>>

\* fmt_argcount without the name of the command
fmt_argcount_noname(name, e) == <<<<"invalid argument count - ">>, e>>

\* "{}: invalid argument count - {}"
fmt_argcount(name, e) == <<name, <<": invalid argument count - ">>, e>>

\* "{}: {}"
fmt_mode(name, e) == <<name, <<": ">>, e>>

\* handle returning False without reporting the error
handle_noreport(st, ign, msg, exc) ==
    IF ign
    THEN [st EXCEPT !.ret = <<FALSE>>, !.exc = None]
    ELSE [st EXCEPT !.ret = <<>>, !.exc = exc]

\* handle never raising the error again
handle_swallow(st, ign, msg, exc) ==
    [st EXCEPT !.errors = Append(@, msg), !.ret = <<FALSE>>, !.exc = None]

\* handle falling through to the dispatch of the stored command
handle_stale(st, ign, msg, exc) ==
    IF ign
    THEN [st EXCEPT !.errors = Append(@, msg),
                    !.handled = IF st.cmd = NoCmd THEN @
                                ELSE Append(@, [cmd |-> st.cmd,
                                                args |-> st.args,
                                                kwargs |-> <<>>,
                                                returned |-> <<>>]),
                    !.ret = <<FALSE>>, !.exc = None]
    ELSE [st EXCEPT !.ret = <<>>, !.exc = exc]

\* an except clause of run: the error is reported and False returned when
\* ignore_exc, and raised again otherwise
handle(st, ign, msg, exc) ==
    IF ign
    THEN [st EXCEPT !.errors = Append(@, msg), !.ret = <<FALSE>>,
                    !.exc = None]
    ELSE [st EXCEPT !.ret = <<>>, !.exc = exc]

\* any(retvals)
any(retvals) == \E i \in 1..Len(retvals) : retvals[i]

\* all(retvals)
all(retvals) == \A i \in 1..Len(retvals) : retvals[i]

\* run_chain leaving the loop at the first part that returns false
run_chain_shortcircuit(st, subs, retvals, cnt, ign, table, curmode) ==
    IF subs = <<>>
    THEN [st EXCEPT !.ret = <<all(retvals)>>, !.exc = None]
    ELSE LET r == run(st, Head(subs), cnt, ign, table, curmode)
         IN  IF r.exc # None \/ ~r.ret[1] THEN r
             ELSE run_chain(r, Tail(subs), Append(retvals, r.ret[1]), cnt, ign,
                            table, curmode)

\* run_chain going on with the parts after the one that raised, and raising
\* at the end
run_chain_continue(st, subs, retvals, cnt, ign, table, curmode) ==
    IF subs = <<>>
    THEN [st EXCEPT !.ret = <<all(retvals)>>, !.exc = None]
    ELSE LET r == run(st, Head(subs), cnt, ign, table, curmode)
         IN  IF r.exc # None
             THEN [run_chain(r, Tail(subs), retvals, cnt, ign, table, curmode)
                      EXCEPT !.ret = <<>>, !.exc = r.exc]
             ELSE run_chain(r, Tail(subs), Append(retvals, r.ret[1]), cnt, ign,
                            table, curmode)

\* the loop of run over the ';;'-separated parts: an exception of a part
\* leaves the loop, otherwise the result is all(retvals)
run_chain(st, subs, retvals, cnt, ign, table, curmode) ==
    IF subs = <<>>
    THEN [st EXCEPT !.ret = <<all(retvals)>>, !.exc = None]
    ELSE LET r == run(st, Head(subs), cnt, ign, table, curmode)
         IN  IF r.exc # None THEN r
             ELSE run_chain(r, Tail(subs), Append(retvals, r.ret[1]), cnt, ign,
                            table, curmode)

\* CommandManager.run(text, count, ignore_exc) on the manager state st
\* (cmd, args, errors, handled, entered): the state after the call with the
\* value returned (ret, <<v>>) or the exception raised (exc).
run(st, txt, cnt, ign, table, curmode) ==
    IF contains(txt, <<";", ";">>)
    THEN run_chain(st, split_sep(txt, <<";", ";">>), <<>>, cnt, ign, table,
                   curmode)
    ELSE
    LET p == parse(txt, TRUE, table)
        parsed == [st EXCEPT !.cmd = IF p.stored THEN p.cmd ELSE @,
                             !.args = IF p.stored THEN p.args ELSE @,
                             !.entered = @ + p.entered]
        chk == _check(parsed, curmode)
    IN  IF p.exc # None
        THEN handle(parsed, ign, fmt_nosuch(p.arg), p.exc)
        ELSE IF chk = "ArgumentCountError"
        THEN handle(parsed, ign,
                    fmt_argcount(command(parsed.cmd).name, <<"wrong count">>),
                    chk)
        ELSE IF chk = "InvalidModeError"
        THEN handle(parsed, ign,
                    fmt_mode(command(parsed.cmd).name, <<"invalid mode">>),
                    chk)
        ELSE [parsed EXCEPT !.handled = Append(@, _run(parsed, cnt)),
                            !.ret = <<TRUE>>, !.exc = None]

\* split_cmdline(text): it parses with a CommandManager of its own
split_cmdline(txt, table) ==
    LET p == parse(txt, TRUE, table)
        parts == IF p.exc = "NoSuchCommandError"
                 THEN split_sep(txt, <<" ">>)
                 ELSE p.ret
    IN  IF endswith_space(txt) THEN Append(parts, <<>>) ELSE parts

(***************************************************************************)
(* SearchManager                                                           *)
(***************************************************************************)
\* the bits of QWebPage.FindFlags
FindFlags == {"FindBackward", "FindCaseSensitively", "FindWrapsAroundDocument"}

\* do_search.emit(t, f)
emit(st, t, f) == [st EXCEPT !.emitted = Append(@, <<t, f>>)]

\* new_flags without the reset to 0: the bits are set on top of the old flags
new_flags_stale(old, ic, ws, rev) ==
    old
    \cup (IF ic THEN {"FindCaseSensitively"} ELSE {})
    \cup (IF ws THEN {"FindWrapsAroundDocument"} ELSE {})
    \cup (IF rev THEN {"FindBackward"} ELSE {})

\* new_flags searching case sensitively when ignorecase is false
new_flags_notignorecase(old, ic, ws, rev) ==
    (IF ~ic THEN {"FindCaseSensitively"} ELSE {})
    \cup (IF ws THEN {"FindWrapsAroundDocument"} ELSE {})
    \cup (IF rev THEN {"FindBackward"} ELSE {})

\* the flags _search computes: it starts from 0 and sets a bit for each of
\* the settings ignorecase and wrapsearch that is true and for rev
new_flags(old, ic, ws, rev) ==
    (IF ic THEN {"FindCaseSensitively"} ELSE {})
    \cup (IF ws THEN {"FindWrapsAroundDocument"} ELSE {})
    \cup (IF rev THEN {"FindBackward"} ELSE {})

\* _search clearing whenever there is a previous text, the same text included
_search_alwaysclear(st, txt, rev, ic, ws) ==
    LET cleared == IF st.text # NoText
                   THEN emit(st, <<>>, {})
                   ELSE st
        stored == [cleared EXCEPT !.text = <<txt>>,
                                  !.flags = new_flags(st.flags, ic, ws, rev)]
    IN  emit(stored, stored.text[1], stored.flags)

\* SearchManager._search(text, rev) on the manager state st (text, flags,
\* emitted) with the settings ic (ignorecase) and ws (wrapsearch)
_search(st, txt, rev, ic, ws) ==
    LET cleared == IF st.text # NoText /\ st.text # <<txt>>
                   THEN emit(st, <<>>, {})
                   ELSE st
        stored == [cleared EXCEPT !.text = <<txt>>,
                                  !.flags = new_flags(st.flags, ic, ws, rev)]
    IN  emit(stored, stored.text[1], stored.flags)

\* SearchManager.search(text)
search(st, txt, ic, ws) == _search(st, txt, FALSE, ic, ws)

\* SearchManager.search_rev(text)
search_rev(st, txt, ic, ws) == _search(st, txt, TRUE, ic, ws)

RECURSIVE nextsearch(_, _)

\* nextsearch emitting once, whatever the count
nextsearch_once(st, n) ==
    IF st.text = NoText \/ n <= 0 THEN st
    ELSE emit(st, st.text[1], st.flags)

\* nextsearch without the test of _text
nextsearch_unguarded(st, n) ==
    IF n <= 0 THEN st
    ELSE nextsearch(emit([st EXCEPT !.text = <<<<>>>>], <<>>, st.flags), n - 1)

\* SearchManager.nextsearch(count): range(count) is empty for count <= 0
nextsearch(st, n) ==
    IF st.text = NoText \/ n <= 0 THEN st
    ELSE nextsearch(emit(st, st.text[1], st.flags), n - 1)

(***************************************************************************)
(* The calls.  A call is made when no call is in progress (op = "idle");   *)
(* the state after it keeps the arguments and the outcome of the call      *)
(* until the caller takes them (Return).                                   *)
(***************************************************************************)
\* CommandManager.__init__
NewManager == _cmd = NoCmd /\ _args = <<>>

\* SearchManager.__init__
NewSearchManager == _text = NoText /\ _flags = {}

\* no call of the SearchManager has been made
NoSearchCall == emitted = <<>> /\ prev_text = NoText /\ prev_flags = {}

Idle ==
    /\ op = "idle" /\ text = <<>> /\ count = NoCount /\ ignore_exc = TRUE
    /\ with_aliases = TRUE
    /\ retval = <<>> /\ raised = None /\ errors = <<>> /\ handled = <<>>
    /\ calls = 0

Init ==
    /\ NewManager
    /\ mode \in Modes
    /\ aliases \in AliasTables
    /\ Idle
    /\ NewSearchManager /\ NoSearchCall
    /\ ignorecase = TRUE /\ wrapsearch = TRUE

\* manager.run(t, c, i)
Run(t, c, i) ==
    /\ op = "idle"
    /\ \E r \in {run([cmd |-> _cmd, args |-> _args, errors |-> <<>>,
                      handled |-> <<>>, entered |-> 0, ret |-> <<>>,
                      exc |-> None], t, c, i, aliases, mode)} :
           /\ _cmd' = r.cmd
           /\ _args' = r.args
           /\ retval' = r.ret
           /\ raised' = r.exc
           /\ errors' = r.errors
           /\ handled' = r.handled
           /\ calls' = r.entered
    /\ op' = "run" /\ text' = t /\ count' = c /\ ignore_exc' = i
    /\ UNCHANGED <<mode, aliases, with_aliases>>
    /\ UNCHANGED searchVars

\* the caller has taken the outcome of the call
Return ==
    /\ op # "idle"
    /\ op' = "idle" /\ text' = <<>> /\ count' = NoCount /\ ignore_exc' = TRUE
    /\ with_aliases' = TRUE
    /\ retval' = <<>> /\ raised' = None /\ errors' = <<>> /\ handled' = <<>>
    /\ calls' = 0
    /\ UNCHANGED <<_cmd, _args, mode, aliases>>
    /\ UNCHANGED searchVars

\* the mode manager enters another mode
SetMode(m) ==
    /\ op = "idle" /\ m # mode
    /\ mode' = m
    /\ UNCHANGED <<_cmd, _args, aliases, op, text, count, ignore_exc,
                   with_aliases, retval, raised, errors, handled, calls>>
    /\ UNCHANGED searchVars

\* the 'aliases' section of the configuration is changed
SetAliases(table) ==
    /\ op = "idle" /\ table # aliases
    /\ aliases' = table
    /\ UNCHANGED <<_cmd, _args, mode, op, text, count, ignore_exc,
                   with_aliases, retval, raised, errors, handled, calls>>
    /\ UNCHANGED searchVars

Next ==
    \/ \E t \in RunTexts, c \in Counts, i \in BOOLEAN : Run(t, c, i)
    \/ Return
    \/ \E m \in Modes : SetMode(m)
    \/ \E table \in AliasTables : SetAliases(table)

Spec == Init /\ [][Next]_vars

(***************************************************************************)
(* parse and split_cmdline on their own: a text and an alias table are     *)
(* given to a new manager.                                                 *)
(***************************************************************************)
InitParse ==
    /\ NewManager
    /\ mode \in Modes
    /\ aliases \in AliasTables
    /\ op = "idle" /\ text \in ParseTexts /\ count = NoCount
    /\ ignore_exc = TRUE /\ with_aliases = TRUE /\ retval = <<>>
    /\ raised = None /\ errors = <<>> /\ handled = <<>> /\ calls = 0
    /\ NewSearchManager /\ NoSearchCall
    /\ ignorecase = TRUE /\ wrapsearch = TRUE

\* manager.parse(text, aliases=a)
Parse(a) ==
    /\ op = "idle"
    /\ \E p \in {parse(text, a, aliases)} :
           /\ _cmd' = IF p.stored THEN p.cmd ELSE _cmd
           /\ _args' = IF p.stored THEN p.args ELSE _args
           /\ retval' = IF p.exc = None THEN <<p.ret>> ELSE <<>>
           /\ raised' = p.exc
           /\ calls' = p.entered
    /\ op' = "parse" /\ with_aliases' = a
    /\ UNCHANGED <<mode, aliases, text, count, ignore_exc, errors, handled>>
    /\ UNCHANGED searchVars

\* split_cmdline(text)
SplitCmdline ==
    /\ op = "idle"
    /\ retval' = <<split_cmdline(text, aliases)>>
    /\ op' = "split_cmdline"
    /\ UNCHANGED <<_cmd, _args, mode, aliases, text, count, ignore_exc,
                   with_aliases, raised, errors, handled, calls>>
    /\ UNCHANGED searchVars

NextParse ==
    \/ \E a \in BOOLEAN : Parse(a)
    \/ SplitCmdline

SpecParse == InitParse /\ [][NextParse]_vars

(***************************************************************************)
(* The SearchManager on its own: it is called and the settings are changed *)
(* between the calls.                                                      *)
(***************************************************************************)
InitSearch ==
    /\ NewManager
    /\ mode = "normal"
    /\ aliases = <<>>
    /\ Idle
    /\ NewSearchManager /\ NoSearchCall
    /\ ignorecase \in BOOLEAN /\ wrapsearch \in BOOLEAN

\* searchmanager.search(t) and searchmanager.search_rev(t)
Search(t, rev) ==
    /\ op = "idle"
    /\ \E r \in {IF rev
                 THEN search_rev([text |-> _text, flags |-> _flags,
                                  emitted |-> <<>>], t, ignorecase, wrapsearch)
                 ELSE search([text |-> _text, flags |-> _flags,
                              emitted |-> <<>>], t, ignorecase, wrapsearch)} :
           /\ _text' = r.text
           /\ _flags' = r.flags
           /\ emitted' = r.emitted
    /\ op' = (IF rev THEN "search_rev" ELSE "search") /\ text' = t
    /\ prev_text' = _text /\ prev_flags' = _flags
    /\ UNCHANGED <<ignorecase, wrapsearch, count>>
    /\ UNCHANGED commandVars

\* searchmanager.nextsearch(n)
NextSearch(n) ==
    /\ op = "idle"
    /\ \E r \in {nextsearch([text |-> _text, flags |-> _flags,
                             emitted |-> <<>>], n)} :
           /\ _text' = r.text
           /\ _flags' = r.flags
           /\ emitted' = r.emitted
    /\ op' = "nextsearch" /\ count' = <<n>>
    /\ prev_text' = _text /\ prev_flags' = _flags
    /\ UNCHANGED <<ignorecase, wrapsearch, text>>
    /\ UNCHANGED commandVars

\* the caller has taken what the call emitted
SearchReturn ==
    /\ op # "idle"
    /\ op' = "idle" /\ text' = <<>> /\ count' = NoCount
    /\ emitted' = <<>> /\ prev_text' = NoText /\ prev_flags' = {}
    /\ UNCHANGED <<_text, _flags, ignorecase, wrapsearch>>
    /\ UNCHANGED commandVars

\* the settings ignorecase and wrapsearch are changed
SetConfig(ic, ws) ==
    /\ op = "idle" /\ <<ic, ws>> # <<ignorecase, wrapsearch>>
    /\ ignorecase' = ic /\ wrapsearch' = ws
    /\ UNCHANGED <<_text, _flags, emitted, prev_text, prev_flags, op, text,
                   count>>
    /\ UNCHANGED commandVars

NextOfSearch ==
    \/ \E t \in SearchTexts, rev \in BOOLEAN : Search(t, rev)
    \/ \E n \in 0..MaxCount : NextSearch(n)
    \/ SearchReturn
    \/ \E ic \in BOOLEAN, ws \in BOOLEAN : SetConfig(ic, ws)

SpecSearch == InitSearch /\ [][NextOfSearch]_vars

TypeOK ==
    /\ op \in {"idle", "run", "parse", "split_cmdline", "search", "search_rev",
               "nextsearch"}
    /\ _flags \subseteq FindFlags
    /\ Len(_text) <= 1
    /\ mode \in Modes
    /\ aliases \in AliasTables
    /\ raised \in {None, "NoSuchCommandError", "ArgumentCountError",
                   "InvalidModeError"}
    /\ Len(retval) <= 1

(***************************************************************************)
(* What the properties are stated with.                                    *)
(***************************************************************************)
\* the k-th smallest element of a set of numbers
Kth(S, k) == CHOOSE x \in S : Cardinality({y \in S : y < x}) = k - 1

\* where the words of s, its maximal runs of characters without a space,
\* begin and end
WordStarts(s) == {i \in 1..Len(s) : s[i] # " " /\ (i = 1 \/ s[i - 1] = " ")}
WordEnds(s) == {i \in 1..Len(s) : s[i] # " " /\ (i = Len(s) \/ s[i + 1] = " ")}

\* the whitespace-delimited tokens of s, in order
Words(s) ==
    [k \in 1..Cardinality(WordStarts(s)) |->
        SubSeq(s, Kth(WordStarts(s), k), Kth(WordEnds(s), k))]

HasSpace(s) == \E i \in 1..Len(s) : s[i] = " "

\* the ';;'-separated segments of the text of the call
Segments == split_sep(text, <<";", ";">>)
IsChain == contains(text, <<";", ";">>)

\* the error that stops the segment seg from being dispatched under the
\* current aliases and mode: that of its parse, else that of its check, else
\* None
SegmentError(seg) ==
    LET p == parse(seg, TRUE, aliases)
    IN  IF p.exc # None THEN p.exc ELSE check(cmd_dict[p.ret[1]], p.args, mode)

\* seg, run on its own, is dispatched
Dispatches(seg) == SegmentError(seg) = None

RunReturned == op = "run"

\* C1: a run in default mode of a text with ';;' returns true if and only if
\* every segment on its own is dispatched (its parse and its check pass).
C1_ChainIsConjunction ==
    (RunReturned /\ ignore_exc /\ IsChain)
        => /\ raised = None
           /\ retval = <<\A k \in 1..Len(Segments) : Dispatches(Segments[k])>>

\* a chain of which one segment was dispatched and another was not
C1_Witness ==
    /\ RunReturned /\ ignore_exc /\ IsChain
    /\ \E k \in 1..Len(Segments) : Dispatches(Segments[k])
    /\ \E k \in 1..Len(Segments) : ~Dispatches(Segments[k])
    /\ retval = <<FALSE>>
    /\ handled # <<>>

\* C2: in default mode no error of a parse or a check reaches the caller; a
\* failing run has sent the error to the message sink and returns false.
C2_ErrorsAreCaught ==
    (RunReturned /\ ignore_exc)
        => /\ raised = None
           /\ (\E k \in 1..Len(Segments) : ~Dispatches(Segments[k]))
                 => (errors # <<>> /\ retval = <<FALSE>>)

\* a run in default mode whose check failed with InvalidModeError
C2_Witness ==
    /\ RunReturned /\ ignore_exc /\ ~IsChain
    /\ SegmentError(text) = "InvalidModeError"
    /\ raised = None /\ Len(errors) = 1 /\ retval = <<FALSE>>

\* C3: with ignore_exc false, a run of one segment whose parse or check fails
\* raises that error to the caller, reports nothing and invokes no handler.
C3_ErrorsPropagate ==
    (RunReturned /\ ~ignore_exc /\ ~IsChain /\ ~Dispatches(text))
        => /\ raised = SegmentError(text)
           /\ retval = <<>>
           /\ errors = <<>>
           /\ handled = <<>>

\* a run with ignore_exc false that raised ArgumentCountError
C3_Witness ==
    /\ RunReturned /\ ~ignore_exc /\ ~IsChain
    /\ raised = "ArgumentCountError"

\* C4: every handler invocation of a run call is that of a segment of the
\* call whose own parse and check passed, with the command and arguments of
\* that parse; a segment that fails is not dispatched, whatever an earlier
\* parse has left in _cmd and _args.
C4_DispatchOnlyOwnParse ==
    RunReturned =>
        /\ \A i \in 1..Len(handled) :
              \E k \in 1..Len(Segments) :
                 /\ Dispatches(Segments[k])
                 /\ handled[i].cmd = parse(Segments[k], TRUE, aliases).cmd
                 /\ handled[i].args = parse(Segments[k], TRUE, aliases).args
        /\ Len(handled) <= Cardinality({k \in 1..Len(Segments) :
                                           Dispatches(Segments[k])})

\* a run whose parse failed while _cmd and _args were left over from an
\* earlier parse
C4_Witness ==
    /\ RunReturned /\ ~IsChain
    /\ parse(text, TRUE, aliases).exc = "NoSuchCommandError"
    /\ _cmd # NoCmd /\ _args # <<>>
    /\ handled = <<>>

\* C5: when the check of a registered command rejects the number of
\* arguments, a run in default mode reports exactly one message, which
\* contains the name of the command, returns false and invokes no handler.
C5_ArityErrorReported ==
    (RunReturned /\ ignore_exc /\ ~IsChain
        /\ SegmentError(text) = "ArgumentCountError")
        => /\ Len(errors) = 1
           /\ \E j \in 1..Len(errors[1]) :
                 errors[1][j] = cmd_dict[parse(text, TRUE, aliases).ret[1]].name
           /\ retval = <<FALSE>>
           /\ raised = None
           /\ handled = <<>>

\* the command that takes exactly one argument, run without one
C5_Witness ==
    /\ RunReturned /\ ignore_exc /\ ~IsChain
    /\ SegmentError(text) = "ArgumentCountError"
    /\ command(_cmd).nargs = 1 /\ _args = <<>>
    /\ Len(errors) = 1

(***************************************************************************)
(* parse and split_cmdline                                                 *)
(***************************************************************************)
ParseReturned == op = "parse"

\* s is empty or consists of whitespace only
Blank(s) == \A i \in 1..Len(s) : s[i] = " "

\* the first whitespace-delimited token of the text is an alias and parse
\* was asked to handle aliases
HeadIsAlias ==
    ~Blank(text) /\ with_aliases /\ Words(text)[1] \in DOMAIN aliases

\* the text whose first token names the command: the replacement text of the
\* alias if the head of the text is one, the text itself otherwise
Resolved == IF HeadIsAlias THEN aliases[Words(text)[1]] ELSE text

\* C6: parse raises NoSuchCommandError and returns nothing when the text is
\* empty or whitespace only, and when the resolved command name is not in the
\* registry.
C6_NoSuchCommand ==
    (ParseReturned
        /\ (Blank(text) \/ Blank(Resolved)
               \/ Words(Resolved)[1] \notin DOMAIN cmd_dict))
        => (raised = "NoSuchCommandError" /\ retval = <<>> /\ _cmd = NoCmd)

\* a parse of a text whose first token is neither an alias nor a command
C6_Witness ==
    /\ ParseReturned /\ ~Blank(text) /\ ~HeadIsAlias
    /\ Words(text)[1] \notin DOMAIN cmd_dict
    /\ raised = "NoSuchCommandError"

\* C7: an alias is substituted at most once: the replacement text of an alias
\* is looked up in the command registry only, as it is written, also when
\* its own head is the name of an alias; parse is entered at most twice.
C7_AliasOnce ==
    ParseReturned =>
        /\ calls <= 2
        /\ HeadIsAlias =>
              /\ calls = 2
              /\ IF Blank(Resolved) \/ Words(Resolved)[1] \notin DOMAIN cmd_dict
                 THEN raised = "NoSuchCommandError" /\ retval = <<>>
                 ELSE /\ raised = None
                      /\ retval[1][1] = Words(Resolved)[1]
                      /\ _cmd = cmd_dict[Words(Resolved)[1]].name

\* a parse of an alias whose replacement text begins with the name of an
\* alias
C7_Witness ==
    /\ ParseReturned /\ HeadIsAlias /\ ~Blank(Resolved)
    /\ Words(Resolved)[1] \in DOMAIN aliases
    /\ raised = None

\* C8: for a non-empty text parse either returns a sequence whose first
\* element is the first token of the text (of the replacement text, when that
\* token is an alias) or raises NoSuchCommandError.
C8_HeadOrNoSuchCommand ==
    (ParseReturned /\ text # <<>>)
        => \/ raised = "NoSuchCommandError" /\ retval = <<>>
           \/ /\ raised = None
              /\ Len(retval) = 1
              /\ retval[1][1] = Words(Resolved)[1]

\* a parse of a second name of a command
C8_Witness ==
    /\ ParseReturned /\ raised = None
    /\ retval[1][1] # cmd_dict[retval[1][1]].name

\* the maxsplit of the command parse has resolved
ResolvedMaxsplit == cmd_dict[retval[1][1]].maxsplit
\* the number of whitespace-delimited tokens after the command name
RestWords == Len(Words(Resolved)) - 1

\* C9 as stated: on a registry hit the argument text is split into at most
\* command.maxsplit tokens, of which only the last may contain whitespace.
C9_AtMostMaxsplitTokens ==
    (ParseReturned /\ raised = None /\ ResolvedMaxsplit >= 0)
        => /\ Len(_args) <= ResolvedMaxsplit
           /\ \A i \in 1..Len(_args) : HasSpace(_args[i]) => i = Len(_args)

\* C9 amended: on a registry hit at most command.maxsplit splits are made (no
\* limit when maxsplit is negative), so the argument text is split into at
\* most command.maxsplit + 1 tokens; the tokens before the limit are the
\* whitespace-delimited tokens of the text, and only the token after the last
\* split may contain whitespace.
C9_AtMostMaxsplitSplits ==
    (ParseReturned /\ raised = None)
        => /\ ResolvedMaxsplit >= 0 => Len(_args) <= ResolvedMaxsplit + 1
           /\ Len(_args) = IF ResolvedMaxsplit < 0 \/ RestWords <= ResolvedMaxsplit
                           THEN RestWords ELSE ResolvedMaxsplit + 1
           /\ \A i \in 1..Len(_args) :
                 (ResolvedMaxsplit < 0 \/ i <= ResolvedMaxsplit)
                    => _args[i] = Words(Resolved)[i + 1]
           /\ \A i \in 1..Len(_args) :
                 HasSpace(_args[i]) => i = ResolvedMaxsplit + 1
           /\ retval[1] = <<Words(Resolved)[1]>> \o _args

\* a parse that has made maxsplit splits and left whitespace in the last
\* token
C9_Witness ==
    /\ ParseReturned /\ raised = None
    /\ _args # <<>> /\ HasSpace(_args[Len(_args)])
    /\ ResolvedMaxsplit = 1

\* C10: for a text that ends with a space split_cmdline returns the tokens of
\* the text followed by one empty element: the tokens parse returns when the
\* command is resolved, the whitespace-delimited tokens of the text otherwise.
C10_OneTrailingEmptyElement ==
    (op = "split_cmdline" /\ endswith_space(text) /\ ~Blank(text))
        => retval[1] = (IF parse(text, TRUE, aliases).exc = None
                        THEN parse(text, TRUE, aliases).ret
                        ELSE Words(text)) \o << <<>> >>

\* C11: for a text whose command is not resolved (parse raises
\* NoSuchCommandError) split_cmdline does not fail and returns the
\* whitespace-delimited tokens of the text, in order.
C11_FallbackIsWords ==
    (op = "split_cmdline" /\ ~Blank(text) /\ ~endswith_space(text)
        /\ parse(text, TRUE, aliases).exc = "NoSuchCommandError")
        => (raised = None /\ retval = <<Words(text)>>)

(***************************************************************************)
(* SearchManager                                                           *)
(***************************************************************************)
SearchReturned == op \in {"search", "search_rev"}

\* the "clear search" event
ClearEvent == << <<>>, {} >>

\* there was a search text when the call was made and it is not the text of
\* the call
TextChanged == prev_text # NoText /\ prev_text # <<text>>

\* C12: a search or search_rev call emits the clear event first if and only
\* if there was a search text and it differs from the new one, and ends with
\* exactly one search request, which carries the text and flags it has
\* stored.
C12_ClearThenRequest ==
    SearchReturned =>
        /\ _text = <<text>>
        /\ emitted = (IF TextChanged THEN <<ClearEvent>> ELSE <<>>)
                     \o << <<text, _flags>> >>

\* a search for another text than the one before
C12_Witness ==
    /\ SearchReturned /\ TextChanged
    /\ Len(emitted) = 2 /\ emitted[1] = ClearEvent /\ emitted[2][1] = text

\* the search request for the text and flags that were stored when the call
\* was made
StoredRequest == <<prev_text[1], prev_flags>>

\* the flags a search would compute from the settings as they are now
FlagsOfConfig(rev) ==
    {f \in FindFlags : \/ f = "FindCaseSensitively" /\ ignorecase
                       \/ f = "FindWrapsAroundDocument" /\ wrapsearch
                       \/ f = "FindBackward" /\ rev}

\* C13: with a search text, nextsearch(count) emits exactly count search
\* requests, each with the stored text and flags, and leaves the stored text
\* and flags as they were, whatever the settings have become.
C13_RepeatStoredRequest ==
    (op = "nextsearch" /\ prev_text # NoText)
        => /\ Len(emitted) = count[1]
           /\ \A i \in 1..Len(emitted) : emitted[i] = StoredRequest
           /\ _text = prev_text
           /\ _flags = prev_flags

\* a nextsearch with a count of more than one, after a setting has changed
\* since the search
C13_Witness ==
    /\ op = "nextsearch" /\ prev_text # NoText
    /\ count[1] = MaxCount /\ Len(emitted) = MaxCount
    /\ _flags \notin {FlagsOfConfig(TRUE), FlagsOfConfig(FALSE)}

\* C14: before any search (the stored text is None), nextsearch(count) emits
\* nothing for any count and leaves the stored text None and the flags 0, so
\* that the next nextsearch finds the same state again.
C14_NoSearchNoRepeat ==
    /\ (_text = NoText => _flags = {})
    /\ (op = "nextsearch" /\ prev_text = NoText)
           => /\ emitted = <<>>
              /\ _text = NoText
              /\ _flags = {} /\ prev_flags = {}

\* a nextsearch with the largest count on a manager that has not searched
C14_Witness ==
    /\ op = "nextsearch" /\ prev_text = NoText /\ count[1] = MaxCount
    /\ emitted = <<>> /\ _text = NoText

\* whether the call that has returned was search_rev
Reverse == op = "search_rev"

\* C15: after search or search_rev the stored flags are what a manager without
\* any earlier search computes from the settings and the direction of this
\* call: a bit of the earlier flags is set only if this call sets it.
C15_NoStaleFlag ==
    SearchReturned =>
        /\ _flags = new_flags({}, ignorecase, wrapsearch, Reverse)
        /\ (prev_flags \cap _flags) \subseteq FlagsOfConfig(Reverse)

\* a search after a search_rev, and after a setting was turned off: the
\* backward bit and the bit of the setting are gone
C15_Witness ==
    /\ op = "search"
    /\ "FindBackward" \in prev_flags /\ "FindBackward" \notin _flags
    /\ \E f \in {"FindCaseSensitively", "FindWrapsAroundDocument"} :
           f \in prev_flags /\ f \notin _flags

\* the flags of the last event a call has emitted
EmittedFlags == emitted[Len(emitted)][2]

\* C20: after search or search_rev the flags emitted are the flags stored, and
\* they hold FindBackward iff the call was search_rev, FindWrapsAroundDocument
\* iff wrapsearch is true, FindCaseSensitively iff ignorecase is true, and
\* nothing else.
C20_FlagBits ==
    SearchReturned =>
        /\ emitted # <<>> /\ EmittedFlags = _flags
        /\ ("FindBackward" \in _flags) <=> Reverse
        /\ ("FindWrapsAroundDocument" \in _flags) <=> wrapsearch
        /\ ("FindCaseSensitively" \in _flags) <=> ignorecase
        /\ _flags \subseteq {"FindBackward", "FindWrapsAroundDocument",
                             "FindCaseSensitively"}

\* a search_rev with ignorecase true and wrapsearch false
C20_Witness ==
    /\ Reverse /\ ignorecase /\ ~wrapsearch
    /\ EmittedFlags = {"FindBackward", "FindCaseSensitively"}

\* C16: when the parse and the check of a text without ';;' pass, run invokes
\* the handler of the resolved command exactly once, with the arguments of
\* the parse, with count as a keyword only when count is not None, and
\* returns true whatever the handler returns.
C16_DispatchOnce ==
    (RunReturned /\ ~IsChain /\ Dispatches(text))
        => /\ Len(handled) = 1
           /\ handled[1].cmd = parse(text, TRUE, aliases).cmd
           /\ handled[1].args = parse(text, TRUE, aliases).args
           /\ handled[1].kwargs = (IF count = NoCount THEN <<>>
                                   ELSE <<"count", count[1]>>)
           /\ retval = <<TRUE>> /\ raised = None /\ errors = <<>>

\* a run without a count of a command with an argument whose handler returns
\* false
C16_Witness ==
    /\ RunReturned /\ ~IsChain /\ Dispatches(text) /\ count = NoCount
    /\ Len(handled) = 1 /\ handled[1].args # <<>>
    /\ handled[1].kwargs = <<>>
    /\ handled[1].returned = <<FALSE>> /\ retval = <<TRUE>>

\* a run with a count
C16_WitnessCount ==
    /\ RunReturned /\ ~IsChain /\ Dispatches(text) /\ count # NoCount
    /\ Len(handled) = 1 /\ handled[1].kwargs = <<"count", count[1]>>

\* the segments of the call that are dispatched on their own, and those that
\* are not, by their position in the text
OkSegments == {k \in 1..Len(Segments) : Dispatches(Segments[k])}
BadSegments == (1..Len(Segments)) \ OkSegments

\* the number of times parse is entered for the first k segments of the call
RECURSIVE ParsesUpTo(_)
ParsesUpTo(k) ==
    IF k = 0 THEN 0
    ELSE ParsesUpTo(k - 1) + parse(Segments[k], TRUE, aliases).entered

\* C17: a run in default mode of a text with ';;' attempts every segment in
\* order: the handler invocations are those of the segments that are
\* dispatched on their own, all of them and in the order of the segments, and
\* there is one error message for each segment that is not.
C17_NoShortCircuit ==
    (RunReturned /\ ignore_exc /\ IsChain)
        => /\ calls = ParsesUpTo(Len(Segments))
           /\ Len(handled) = Cardinality(OkSegments)
           /\ \A i \in 1..Len(handled) :
                 LET p == parse(Segments[Kth(OkSegments, i)], TRUE, aliases)
                 IN  handled[i].cmd = p.cmd /\ handled[i].args = p.args
           /\ Len(errors) = Cardinality(BadSegments)

\* a chain of three segments, the second failing, the first and the third
\* dispatched to different handlers
C17_Witness ==
    /\ RunReturned /\ ignore_exc /\ IsChain
    /\ Len(Segments) = 3 /\ BadSegments = {2}
    /\ Len(handled) = 2 /\ handled[1].cmd # handled[2].cmd
    /\ handled[2].cmd = parse(Segments[3], TRUE, aliases).cmd
    /\ Len(errors) = 1

\* the first segment of the call that is not dispatched on its own
FirstBad == Min(BadSegments)

\* C18: a run with ignore_exc false of a text with ';;' of which a segment
\* fails raises the error of the first such segment; the handlers of the
\* segments before it have run, in order, and no segment after it is parsed
\* or dispatched.
C18_ChainStopsAtFirstError ==
    (RunReturned /\ ~ignore_exc /\ IsChain /\ BadSegments # {})
        => /\ raised = SegmentError(Segments[FirstBad])
           /\ retval = <<>>
           /\ errors = <<>>
           /\ Len(handled) = FirstBad - 1
           /\ \A i \in 1..Len(handled) :
                 LET p == parse(Segments[i], TRUE, aliases)
                 IN  handled[i].cmd = p.cmd /\ handled[i].args = p.args
           /\ calls = ParsesUpTo(FirstBad)

\* a chain whose second segment of three fails: the handler of the first has
\* run, that of the third, which would be dispatched on its own, has not
C18_Witness ==
    /\ RunReturned /\ ~ignore_exc /\ IsChain
    /\ Len(Segments) = 3 /\ FirstBad = 2 /\ 3 \in OkSegments
    /\ raised = "NoSuchCommandError"
    /\ Len(handled) = 1

\* what parse yields for the replacement text on its own, aliases not handled
OfReplacement == parse(Resolved, FALSE, aliases)

\* C19: when the head of the text is an alias, what parse returns or raises
\* and the command and arguments it stores are those of the replacement text
\* of the alias parsed on its own: what is typed after the name of the alias
\* is dropped.
C19_AliasDropsTypedArgs ==
    (ParseReturned /\ HeadIsAlias)
        => /\ raised = OfReplacement.exc
           /\ retval = (IF OfReplacement.exc = None
                        THEN <<OfReplacement.ret>> ELSE <<>>)
           /\ OfReplacement.stored
                 => (_cmd = OfReplacement.cmd /\ _args = OfReplacement.args)

\* a parse of an alias followed by a word that is not among the arguments of
\* the replacement text: the stored arguments are those of the replacement
C19_Witness ==
    /\ ParseReturned /\ HeadIsAlias /\ Len(Words(text)) >= 2
    /\ raised = None /\ _args # <<>>
    /\ \A i \in 1..Len(_args) : _args[i] # Words(text)[2]

====
